---- MODULE Spec2Model ----
(***************************************************************************)
(* Model of the App component (two revisions of the same file are kept in  *)
(* the source: revision 1 with the voice/text input modes, revision 2 with *)
(* handleRegenerate).  One event-loop turn of the component is one action. *)
(* Texts are sequences of characters; " " is the whitespace character.     *)
(***************************************************************************)
EXTENDS Integers, Sequences, FiniteSets, TLC

\* ---------------------------------------------------------------- bounds
MaxSessions == 2
MaxRequests == 2
MaxCalls == 2
MaxFragments == 1
MaxChunks == 1
MaxPending == 1
MaxSelect == 1
MaxClock == 0

SessIds == 1..MaxSessions
ReqIds == 1..MaxRequests

\* ---------------------------------------------------------------- values
AppStatus == {"IDLE", "LISTENING", "OPTIMIZING", "FINISHED", "ERROR"}

Fragments == {<<" ">>, <<"a", " ">>}
ManualTexts == {<<>>, <<" ">>, <<" ", "a">>}

\* a chunk of the text-generation stream: c.text is a string or undefined
NoText == [has |-> FALSE, text |-> <<>>]
Chunks == {NoText, [has |-> TRUE, text |-> <<"x">>]}

\* String(undefined), what `fullText += undefined` appends
UndefinedText == <<"undefined">>

\* user-facing messages; null is the absent message
null == "null"
MsgMic == "mic"
MsgVoice == "voice"
MsgRefineKey == "refine-key"
MsgRefineInvalid == "refine-invalid"
MsgRefine == "refine"

NotFound == "Requested entity was not found."
KeyInvalid == "API key not valid"
Other == "other"

\* ---------------------------------------------------------------- state
VARIABLES
  version,            \* which revision of App runs (1 or 2)
  hasAistudio,        \* window.aistudio is provided by the host
  mountCheck,         \* the mount effect's checkKey: "pending" or "done"
  pendingSelect,      \* un-awaited handleSelectKey() calls still open
  status, inputMode, transcript, manualText, optimizedPrompt,
  history, error, needsApiKey,
  audioContextRef, streamRef, scriptProcessorRef, transcriptRef, sessionRef,
  listen,             \* the startListening calls and what each acquired
  req,                \* the handleManualSubmit / optimizePrompt calls
  phase,              \* the startListening call that last reset the buffer
  received            \* the fragments delivered since, each with its call

uiVars == <<status, inputMode, transcript, manualText, optimizedPrompt,
            history, error, needsApiKey>>
refVars == <<audioContextRef, streamRef, scriptProcessorRef, sessionRef>>
envVars == <<version, hasAistudio>>
logVars == <<phase, received>>
vars == <<version, hasAistudio, mountCheck, pendingSelect,
          status, inputMode, transcript, manualText, optimizedPrompt,
          history, error, needsApiKey,
          audioContextRef, streamRef, scriptProcessorRef, transcriptRef,
          sessionRef, listen, req, phase, received>>

\* ---------------------------------------------------------------- texts
IsSpace(c) == c = " "

RECURSIVE TrimStart(_)
TrimStart(s) ==
  IF s # <<>> /\ IsSpace(Head(s)) THEN TrimStart(Tail(s)) ELSE s

RECURSIVE TrimEnd(_)
TrimEnd(s) ==
  IF s # <<>> /\ IsSpace(s[Len(s)])
  THEN TrimEnd(SubSeq(s, 1, Len(s) - 1)) ELSE s

\* a trim that returns its argument
TrimKeepsAll(s) == s

\* String.prototype.trim
Trim(s) == TrimEnd(TrimStart(s))

\* ---------------------------------------------------------------- records
NewListen ==
  [pc |-> "new", sawListening |-> FALSE, stream |-> "none", ctx |-> "none",
   node |-> "none", pending |-> 0, fed |-> FALSE]

NewReq ==
  [pc |-> "new", rawInput |-> <<>>, fullText |-> <<>>, chunks |-> <<>>]

Refs == [session |-> sessionRef, node |-> scriptProcessorRef,
         stream |-> streamRef, ctx |-> audioContextRef]
NullRefs == [session |-> 0, node |-> 0, stream |-> 0, ctx |-> 0]

SetRefs(R) ==
  /\ sessionRef' = R.session
  /\ scriptProcessorRef' = R.node
  /\ streamRef' = R.stream
  /\ audioContextRef' = R.ctx

\* the startListening and handleManualSubmit / optimizePrompt calls so far
Calls ==
  Cardinality({i \in SessIds : listen[i].pc # "new"})
    + Cardinality({r \in ReqIds : req[r].pc # "new"})

\* the next unused startListening / optimizePrompt slot, while the run may
\* make another call
FreeSession(i) ==
  /\ Calls < MaxCalls
  /\ listen[i].pc = "new"
  /\ \A j \in SessIds : j < i => listen[j].pc # "new"
FreeReq(r) ==
  /\ Calls < MaxCalls
  /\ req[r].pc = "new"
  /\ \A q \in ReqIds : q < r => req[q].pc # "new"

\* ---------------------------------------------------------------- teardown
\* a teardown without the try around close(): on a session that is closed
\* already close() raises and nothing after it runs
stopListeningInternalUnguarded(L, R) ==
  IF R.session # 0 /\ L[R.session].pc \notin {"connecting", "open"}
  THEN L
  ELSE [i \in SessIds |->
          [L[i] EXCEPT
             !.pc = IF R.session = i /\ @ \in {"connecting", "open"} THEN "stopped" ELSE @,
             !.fed = IF R.session = i THEN FALSE ELSE @,
             !.node = IF R.node = i THEN "disconnected" ELSE @,
             !.stream = IF R.stream = i THEN "stopped" ELSE @,
             !.ctx = IF R.ctx = i THEN "closed" ELSE @]]

\* stopListeningInternal: what the objects held by the refs R become.
\* pc "stopped" is a session closed here by sessionRef.current.close(), pc
\* "closed" one closed by the service or after an error: neither delivers
\* onopen, onmessage or onerror any more.
\* close() on a session that is closed already may raise; the catch makes
\* both outcomes the same.
stopListeningInternal(L, R) ==
  [i \in SessIds |->
     [L[i] EXCEPT
        !.pc = IF R.session = i /\ @ \in {"connecting", "open"} THEN "stopped" ELSE @,
        !.fed = IF R.session = i THEN FALSE ELSE @,
        !.node = IF R.node = i THEN "disconnected" ELSE @,
        !.stream = IF R.stream = i THEN "stopped" ELSE @,
        !.ctx = IF R.ctx = i THEN "closed" ELSE @]]

\* handleError(msg) run with the sessions L and refs R of the current turn
handleError(msg, L, R) ==
  /\ error' = msg
  /\ status' = "ERROR"
  /\ listen' = stopListeningInternal(L, R)
  /\ SetRefs(NullRefs)

\* a handleSelectKey that opens the selection on any host
SelectKeyCallsAnyHost(n) == n + 1

\* handleSelectKey() called without await
SelectKeyCalls(n) == IF hasAistudio THEN n + 1 ELSE n

Init ==
  /\ version \in {1, 2}
  /\ hasAistudio \in BOOLEAN
  /\ mountCheck = IF hasAistudio THEN "pending" ELSE "done"
  /\ pendingSelect = 0
  /\ status = "IDLE"
  /\ inputMode = "voice"
  /\ transcript = <<>>
  /\ manualText = <<>>
  /\ optimizedPrompt = <<>>
  /\ history = <<>>
  /\ error = null
  /\ needsApiKey = FALSE
  /\ audioContextRef = 0
  /\ streamRef = 0
  /\ scriptProcessorRef = 0
  /\ transcriptRef = <<>>
  /\ sessionRef = 0
  /\ listen = [i \in SessIds |-> NewListen]
  /\ req = [r \in ReqIds |-> NewReq]
  /\ phase = 0
  /\ received = <<>>

\* ---------------------------------------------------------------- refinement
\* an optimizePrompt that tears the capture down before it starts
optimizePromptReleasing(r, rawInput, clientOk, L, R) ==
  /\ optimizedPrompt' = <<>>
  /\ req' = [req EXCEPT ![r] = [NewReq EXCEPT !.pc = IF clientOk THEN "streaming" ELSE "failed",
                                              !.rawInput = rawInput]]
  /\ IF clientOk
     THEN /\ status' = "OPTIMIZING"
          /\ error' = IF version = 1 THEN null ELSE error
          /\ listen' = stopListeningInternal(L, R)
          /\ SetRefs(NullRefs)
     ELSE handleError(MsgRefine, L, R)

\* optimizePrompt(rawInput) up to its first await, as call r; clientOk is
\* whether `new GoogleGenAI` returns (it throws inside the try otherwise).
\* pc "streaming" is the call waiting for the stream or for its next chunk.
optimizePrompt(r, rawInput, clientOk, L, R) ==
  /\ optimizedPrompt' = <<>>
  /\ IF clientOk
     THEN /\ status' = "OPTIMIZING"
          /\ error' = IF version = 1 THEN null ELSE error
          /\ req' = [req EXCEPT ![r] = [NewReq EXCEPT !.pc = "streaming", !.rawInput = rawInput]]
          /\ listen' = L
          /\ SetRefs(R)
     ELSE /\ req' = [req EXCEPT ![r] = [NewReq EXCEPT !.pc = "failed", !.rawInput = rawInput]]
          /\ handleError(MsgRefine, L, R)

\* ---------------------------------------------------------------- capture
CtxOutcomes == IF version = 1 THEN {"running", "suspended", "throw"} ELSE {"later"}
GumOutcomes ==
  IF version = 1 THEN {"ok", "denied", "clientThrow"}
  ELSE {"ok", "denied", "ctxThrow", "clientThrow"}

\* a startListening that leaves the displayed output as it is
BeginCaptureKeepsOutput(i, L, out) ==
  /\ transcript' = <<>>
  /\ optimizedPrompt' = optimizedPrompt
  /\ transcriptRef' = <<>>
  /\ phase' = i
  /\ received' = <<>>
  /\ IF version = 1
     THEN CASE out = "throw" ->
                 handleError(MsgMic, [L EXCEPT ![i].pc = "failed"], Refs)
            [] out = "suspended" ->
                 /\ error' = null
                 /\ status' = status
                 /\ listen' = [L EXCEPT ![i].pc = "resume", ![i].ctx = "suspended"]
                 /\ SetRefs([Refs EXCEPT !.ctx = i])
            [] OTHER ->
                 /\ error' = null
                 /\ status' = status
                 /\ listen' = [L EXCEPT ![i].pc = "gum", ![i].ctx = "running"]
                 /\ SetRefs([Refs EXCEPT !.ctx = i])
     ELSE /\ error' = null
          /\ status' = status
          /\ listen' = [L EXCEPT ![i].pc = "gum"]
          /\ SetRefs(Refs)
  /\ UNCHANGED <<version, hasAistudio, mountCheck, pendingSelect, inputMode,
                 manualText, history, req>>

\* startListening from the state resets to the first await of its try block
BeginCapture(i, L, out) ==
  /\ transcript' = <<>>
  /\ optimizedPrompt' = <<>>
  /\ transcriptRef' = <<>>
  /\ phase' = i
  /\ received' = <<>>
  /\ IF version = 1
     THEN CASE out = "throw" ->
                 handleError(MsgMic, [L EXCEPT ![i].pc = "failed"], Refs)
            [] out = "suspended" ->
                 /\ error' = null
                 /\ status' = status
                 /\ listen' = [L EXCEPT ![i].pc = "resume", ![i].ctx = "suspended"]
                 /\ SetRefs([Refs EXCEPT !.ctx = i])
            [] OTHER ->
                 /\ error' = null
                 /\ status' = status
                 /\ listen' = [L EXCEPT ![i].pc = "gum", ![i].ctx = "running"]
                 /\ SetRefs([Refs EXCEPT !.ctx = i])
     ELSE /\ error' = null
          /\ status' = status
          /\ listen' = [L EXCEPT ![i].pc = "gum"]
          /\ SetRefs(Refs)
  /\ UNCHANGED <<version, hasAistudio, mountCheck, pendingSelect, inputMode,
                 manualText, history, req>>

\* the start button is rendered unless status is LISTENING (revision 1: in
\* voice mode) and is disabled while OPTIMIZING
StartEnabled ==
  /\ status \notin {"LISTENING", "OPTIMIZING"}
  /\ version = 1 => inputMode = "voice"

\* click on the start button: startListening up to its first await
StartClick(i) ==
  /\ StartEnabled
  /\ FreeSession(i)
  /\ LET L == [listen EXCEPT ![i].sawListening = (status = "LISTENING")]
         awaitsKey == IF version = 1 THEN hasAistudio ELSE needsApiKey /\ hasAistudio
     IN IF awaitsKey
        THEN /\ listen' = [L EXCEPT ![i].pc = IF version = 1 THEN "key" ELSE "select"]
             /\ UNCHANGED <<uiVars, refVars, envVars, mountCheck, pendingSelect,
                            transcriptRef, req, logVars>>
        ELSE /\ \E out \in CtxOutcomes : BeginCapture(i, L, out)
             /\ UNCHANGED needsApiKey

\* revision 1: `await window.aistudio.hasSelectedApiKey()` returns
StartKeyChecked(i, hasKey) ==
  /\ version = 1
  /\ listen[i].pc = "key"
  /\ IF hasKey
     THEN \E out \in CtxOutcomes : BeginCapture(i, listen, out)
     ELSE /\ listen' = [listen EXCEPT ![i].pc = "select"]
          /\ UNCHANGED <<uiVars, refVars, envVars, mountCheck, pendingSelect,
                         transcriptRef, req, logVars>>
  /\ UNCHANGED needsApiKey

\* `await handleSelectKey()` returns; revision 2 has no try around
\* openSelectKey, so its rejection ends startListening
StartSelectDone(i, ok) ==
  /\ listen[i].pc = "select"
  /\ needsApiKey' = IF ok THEN FALSE ELSE needsApiKey
  /\ IF ok \/ version = 1
     THEN \E out \in CtxOutcomes : BeginCapture(i, listen, out)
     ELSE /\ listen' = [listen EXCEPT ![i].pc = "failed"]
          /\ UNCHANGED <<status, inputMode, transcript, manualText, optimizedPrompt,
                         history, error, refVars, envVars, mountCheck,
                         pendingSelect, transcriptRef, req, logVars>>

\* revision 1: `await audioCtx.resume()` settles; a context closed meanwhile
\* rejects
StartResumed(i, ok) ==
  /\ UNCHANGED logVars
  /\ version = 1
  /\ listen[i].pc = "resume"
  /\ IF ok /\ listen[i].ctx = "suspended"
     THEN /\ listen' = [listen EXCEPT ![i].pc = "gum", ![i].ctx = "running"]
          /\ UNCHANGED <<status, error, refVars>>
     ELSE handleError(MsgMic, [listen EXCEPT ![i].pc = "failed"], Refs)
  /\ UNCHANGED <<inputMode, transcript, manualText, optimizedPrompt, history,
                 needsApiKey, envVars, mountCheck, pendingSelect, transcriptRef, req>>

\* `await getUserMedia` settles and startListening runs to its end
StartGumDone(i, out) ==
  /\ UNCHANGED logVars
  /\ listen[i].pc = "gum"
  /\ out \in GumOutcomes
  /\ LET got == [listen EXCEPT ![i].stream = "live"]
         gotCtx == [got EXCEPT ![i].ctx = "running"]
         Rs == [Refs EXCEPT !.stream = i]
         Rsc == [Rs EXCEPT !.ctx = i]
     IN CASE out = "ok" ->
               /\ listen' = IF version = 1 THEN [got EXCEPT ![i].pc = "connecting"]
                            ELSE [gotCtx EXCEPT ![i].pc = "connecting"]
               /\ SetRefs(IF version = 1 THEN Rs ELSE Rsc)
               /\ UNCHANGED <<status, error>>
          [] out = "denied" ->
               handleError(MsgMic, [listen EXCEPT ![i].pc = "failed"], Refs)
          [] out = "ctxThrow" ->
               handleError(MsgMic, [got EXCEPT ![i].pc = "failed"], Rs)
          [] OTHER ->
               IF version = 1
               THEN handleError(MsgMic, [got EXCEPT ![i].pc = "failed"], Rs)
               ELSE handleError(MsgMic, [gotCtx EXCEPT ![i].pc = "failed"], Rsc)
  /\ UNCHANGED <<inputMode, transcript, manualText, optimizedPrompt, history,
                 needsApiKey, envVars, mountCheck, pendingSelect, transcriptRef, req>>

\* ---------------------------------------------------------------- callbacks
\* callbacks.onopen of call i; on a context that was closed meanwhile
\* createMediaStreamSource either throws or returns, by browser
onopen(i, throws) ==
  /\ UNCHANGED logVars
  /\ listen[i].pc = "connecting"
  /\ throws => listen[i].ctx = "closed"
  /\ IF throws
     THEN /\ listen' = [listen EXCEPT ![i].pc = "open"]
          /\ UNCHANGED <<status, scriptProcessorRef>>
     ELSE /\ listen' = [listen EXCEPT ![i].pc = "open", ![i].node = "connected"]
          /\ scriptProcessorRef' = i
          /\ status' = "LISTENING"
  /\ UNCHANGED <<inputMode, transcript, manualText, optimizedPrompt, history,
                 error, needsApiKey, audioContextRef, streamRef, sessionRef,
                 envVars, mountCheck, pendingSelect, transcriptRef, req>>

\* scriptProcessor.onaudioprocess of call i: one frame, its send deferred
onaudioprocess(i) ==
  /\ UNCHANGED logVars
  /\ listen[i].node = "connected"
  /\ listen[i].ctx = "running"
  /\ listen[i].pending < MaxPending
  /\ listen' = [listen EXCEPT ![i].pending = @ + 1]
  /\ UNCHANGED <<uiVars, refVars, envVars, mountCheck, pendingSelect,
                 transcriptRef, req>>

\* the deferred sessionPromise.then callback of one frame of call i; fed:
\* the open session has been sent audio (read by onmessage only, and dropped
\* once the session is closed)
sendFrame(i) ==
  /\ UNCHANGED logVars
  /\ listen[i].pending > 0
  /\ sessionRef' = i
  /\ listen' = [listen EXCEPT ![i].pending = @ - 1,
                              ![i].fed = @ \/ listen[i].pc = "open"]
  /\ UNCHANGED <<uiVars, audioContextRef, streamRef, scriptProcessorRef,
                 envVars, mountCheck, pendingSelect, transcriptRef, req>>

\* callbacks.onmessage of call i with an inputTranscription part; the
\* service transcribes the audio it has been sent
onmessage(i, part) ==
  /\ listen[i].pc = "open"
  /\ listen[i].fed
  /\ Len(received) < MaxFragments
  /\ transcriptRef' = transcriptRef \o part
  /\ transcript' = transcriptRef \o part
  /\ received' = Append(received, [from |-> i, text |-> part])
  /\ UNCHANGED <<status, inputMode, manualText, optimizedPrompt, history, error,
                 needsApiKey, refVars, envVars, mountCheck, pendingSelect, req,
                 listen, phase>>

\* an onerror that raises the credential flag whatever the error says
onerrorAlwaysFlags(i, message) ==
  /\ UNCHANGED logVars
  /\ listen[i].pc \in {"connecting", "open"}
  /\ needsApiKey' = TRUE
  /\ pendingSelect' = IF message = NotFound THEN SelectKeyCalls(pendingSelect)
                      ELSE pendingSelect
  /\ handleError(MsgVoice,
                 [listen EXCEPT ![i].pc = IF sessionRef = i THEN "stopped" ELSE "closed", ![i].fed = FALSE],
                 Refs)
  /\ UNCHANGED <<inputMode, transcript, manualText, optimizedPrompt, history,
                 envVars, mountCheck, transcriptRef, req>>

\* callbacks.onerror of call i; the socket closes after an error
onerror(i, message) ==
  /\ UNCHANGED logVars
  /\ listen[i].pc \in {"connecting", "open"}
  /\ needsApiKey' = IF message = NotFound THEN TRUE ELSE needsApiKey
  /\ pendingSelect' = IF message = NotFound THEN SelectKeyCalls(pendingSelect)
                      ELSE pendingSelect
  /\ handleError(MsgVoice,
                 [listen EXCEPT ![i].pc = IF sessionRef = i THEN "stopped" ELSE "closed", ![i].fed = FALSE],
                 Refs)
  /\ UNCHANGED <<inputMode, transcript, manualText, optimizedPrompt, history,
                 envVars, mountCheck, transcriptRef, req>>

\* a stopListening that submits the buffer as it is
stopListeningUntrimmed(r, clientOk, L) ==
  LET released == stopListeningInternal(L, Refs)
  IN IF Trim(transcriptRef) # <<>>
     THEN /\ FreeReq(r)
          /\ optimizePrompt(r, transcriptRef, clientOk, released, NullRefs)
     ELSE /\ status' = "IDLE"
          /\ listen' = released
          /\ SetRefs(NullRefs)
          /\ UNCHANGED <<optimizedPrompt, error, req>>

\* stopListening; r is the optimizePrompt call it may make
stopListening(r, clientOk, L) ==
  LET finalTranscript == Trim(transcriptRef)
      released == stopListeningInternal(L, Refs)
  IN IF finalTranscript # <<>>
     THEN /\ FreeReq(r)
          /\ optimizePrompt(r, finalTranscript, clientOk, released, NullRefs)
     ELSE /\ status' = "IDLE"
          /\ listen' = released
          /\ SetRefs(NullRefs)
          /\ UNCHANGED <<optimizedPrompt, error, req>>

\* callbacks.onclose of call i, on a close by the service or after an error
\* or a close(); `status` is the value startListening closed over when it
\* was called (sawListening: that value is LISTENING)
onclose(i) ==
  /\ UNCHANGED logVars
  /\ listen[i].pc \in {"connecting", "open", "closed", "stopped"}
  /\ LET L == [listen EXCEPT ![i].pc = IF @ = "stopped" THEN @ ELSE "closed", ![i].fed = FALSE]
     IN IF listen[i].sawListening
        THEN \E r \in ReqIds, clientOk \in BOOLEAN : stopListening(r, clientOk, L)
        ELSE /\ listen' = L
             /\ UNCHANGED <<status, optimizedPrompt, error, refVars, req>>
  /\ UNCHANGED <<inputMode, transcript, manualText, history, needsApiKey,
                 envVars, mountCheck, pendingSelect, transcriptRef>>

\* click on the stop button, rendered while LISTENING (revision 1: in voice
\* mode)
StopClick(r, clientOk) ==
  /\ UNCHANGED logVars
  /\ status = "LISTENING"
  /\ version = 1 => inputMode = "voice"
  /\ stopListening(r, clientOk, listen)
  /\ UNCHANGED <<inputMode, transcript, manualText, history, needsApiKey,
                 envVars, mountCheck, pendingSelect, transcriptRef>>

\* ---------------------------------------------------------------- typed input
\* revision 1: the mode toggle, disabled while LISTENING
setInputMode(m) ==
  /\ UNCHANGED logVars
  /\ version = 1
  /\ status # "LISTENING"
  /\ m # inputMode
  /\ inputMode' = m
  /\ UNCHANGED <<status, transcript, manualText, optimizedPrompt, history, error,
                 needsApiKey, refVars, envVars, mountCheck, pendingSelect,
                 transcriptRef, listen, req>>

\* revision 1: the textarea's onChange
setManualText(t) ==
  /\ UNCHANGED logVars
  /\ version = 1
  /\ inputMode = "text"
  /\ t # manualText
  /\ manualText' = t
  /\ UNCHANGED <<status, inputMode, transcript, optimizedPrompt, history, error,
                 needsApiKey, refVars, envVars, mountCheck, pendingSelect,
                 transcriptRef, listen, req>>

\* revision 1: click on Refine Content (disabled for blank text and while
\* OPTIMIZING): handleManualSubmit up to its first await, as call r
handleManualSubmit(r, clientOk) ==
  /\ UNCHANGED logVars
  /\ version = 1
  /\ inputMode = "text"
  /\ Trim(manualText) # <<>>
  /\ status # "OPTIMIZING"
  /\ FreeReq(r)
  /\ IF Trim(manualText) = <<>>
     THEN UNCHANGED <<status, optimizedPrompt, error, refVars, listen, req>>
     ELSE IF hasAistudio
          THEN /\ req' = [req EXCEPT ![r] = [NewReq EXCEPT !.pc = "key", !.rawInput = manualText]]
               /\ UNCHANGED <<status, optimizedPrompt, error, refVars, listen>>
          ELSE optimizePrompt(r, Trim(manualText), clientOk, listen, Refs)
  /\ UNCHANGED <<inputMode, transcript, manualText, history, needsApiKey,
                 envVars, mountCheck, pendingSelect, transcriptRef>>

\* handleManualSubmit: `await hasSelectedApiKey()` returns
ManualKeyChecked(r, hasKey, clientOk) ==
  /\ UNCHANGED logVars
  /\ req[r].pc = "key"
  /\ IF hasKey
     THEN optimizePrompt(r, Trim(req[r].rawInput), clientOk, listen, Refs)
     ELSE /\ req' = [req EXCEPT ![r].pc = "select"]
          /\ UNCHANGED <<status, optimizedPrompt, error, refVars, listen>>
  /\ UNCHANGED <<inputMode, transcript, manualText, history, needsApiKey,
                 envVars, mountCheck, pendingSelect, transcriptRef>>

\* handleManualSubmit: `await handleSelectKey()` returns (it catches a
\* failed selection)
ManualSelectDone(r, ok, clientOk) ==
  /\ UNCHANGED logVars
  /\ req[r].pc = "select"
  /\ needsApiKey' = IF ok THEN FALSE ELSE needsApiKey
  /\ optimizePrompt(r, Trim(req[r].rawInput), clientOk, listen, Refs)
  /\ UNCHANGED <<inputMode, transcript, manualText, history,
                 envVars, mountCheck, pendingSelect, transcriptRef>>

\* revision 2: the regenerate / retry button, rendered in the result panel
\* when FINISHED with output and in the error panel
handleRegenerate(r, clientOk) ==
  /\ UNCHANGED logVars
  /\ version = 2
  /\ \/ status = "FINISHED" /\ optimizedPrompt # <<>>
     \/ status = "ERROR"
  /\ IF Trim(transcriptRef) # <<>>
     THEN /\ FreeReq(r)
          /\ optimizePrompt(r, transcriptRef, clientOk, listen, Refs)
     ELSE UNCHANGED <<status, optimizedPrompt, error, refVars, listen, req>>
  /\ UNCHANGED <<inputMode, transcript, manualText, history, needsApiKey,
                 envVars, mountCheck, pendingSelect, transcriptRef>>

\* ---------------------------------------------------------------- stream
\* fullText after one chunk
Accumulate(fullText, c) ==
  IF version = 1
  THEN IF c.has /\ c.text # <<>> THEN fullText \o c.text ELSE fullText
  ELSE fullText \o (IF c.has THEN c.text ELSE UndefinedText)

\* one turn of the for-await loop of call r
streamChunk(r, c) ==
  /\ UNCHANGED logVars
  /\ req[r].pc = "streaming"
  /\ Len(req[r].chunks) < MaxChunks
  /\ LET fullText == Accumulate(req[r].fullText, c)
     IN /\ req' = [req EXCEPT ![r].fullText = fullText, ![r].chunks = Append(@, c)]
        /\ optimizedPrompt' =
             IF version = 1 /\ ~(c.has /\ c.text # <<>>) THEN optimizedPrompt
             ELSE fullText
  /\ UNCHANGED <<status, inputMode, transcript, manualText, history, error,
                 needsApiKey, refVars, envVars, mountCheck, pendingSelect,
                 transcriptRef, listen>>

\* Date.now() does not run backwards: the readings a completing call can
\* get, given the items stored so far
Clock == 0..MaxClock
Readings ==
  {t \in Clock : history # <<>> => t >= Head(history).timestamp}

\* the item optimizePrompt call r stores when Date.now() reads t1, then t2
HistoryItem(r, t1, t2) ==
  [id |-> ToString(t1), timestamp |-> t2,
   rawInput |-> req[r].rawInput, optimizedPrompt |-> req[r].fullText]

\* a setHistory updater that puts the new item last
setHistoryAtEnd(item, prev) == prev \o <<item>>

\* a setHistory updater that keeps one item only
setHistoryLatestOnly(item, prev) == <<item>>

\* the updater `prev => [item, ...prev]` given to setHistory
setHistory(item, prev) == <<item>> \o prev

\* the stream of call r is exhausted
streamEnd(r, t1, t2) ==
  /\ UNCHANGED logVars
  /\ req[r].pc = "streaming"
  /\ t1 \in Readings /\ t2 \in Readings /\ t1 <= t2
  /\ history' = setHistory(HistoryItem(r, t1, t2), history)
  /\ status' = "FINISHED"
  /\ req' = [req EXCEPT ![r].pc = "done"]
  /\ UNCHANGED <<inputMode, transcript, manualText, optimizedPrompt, error,
                 needsApiKey, refVars, envVars, mountCheck, pendingSelect,
                 transcriptRef, listen>>

\* the message handleError gets in optimizePrompt's catch
RefineMessage(message) ==
  IF version = 2 THEN MsgRefine
  ELSE CASE message = NotFound -> MsgRefineKey
         [] message = KeyInvalid -> MsgRefineInvalid
         [] OTHER -> MsgRefine

\* a catch that flags the credential without calling handleSelectKey
streamErrorNoSelect(r, message) ==
  /\ UNCHANGED logVars
  /\ req[r].pc = "streaming"
  /\ req' = [req EXCEPT ![r].pc = "failed"]
  /\ needsApiKey' = IF message = NotFound THEN TRUE ELSE needsApiKey
  /\ pendingSelect' = pendingSelect
  /\ handleError(RefineMessage(message), listen, Refs)
  /\ UNCHANGED <<inputMode, transcript, manualText, optimizedPrompt, history,
                 envVars, mountCheck, transcriptRef>>

\* generateContentStream or the stream of call r raises
streamError(r, message) ==
  /\ UNCHANGED logVars
  /\ req[r].pc = "streaming"
  /\ req' = [req EXCEPT ![r].pc = "failed"]
  /\ needsApiKey' = IF message = NotFound THEN TRUE ELSE needsApiKey
  /\ pendingSelect' = IF message = NotFound THEN SelectKeyCalls(pendingSelect)
                      ELSE pendingSelect
  /\ handleError(RefineMessage(message), listen, Refs)
  /\ UNCHANGED <<inputMode, transcript, manualText, optimizedPrompt, history,
                 envVars, mountCheck, transcriptRef>>

\* ---------------------------------------------------------------- the rest
\* the trash button (FINISHED with output) and revision 1's Dismiss & Retry
Dismiss ==
  /\ UNCHANGED logVars
  /\ \/ status = "FINISHED" /\ optimizedPrompt # <<>>
     \/ version = 1 /\ status = "ERROR"
  /\ status' = "IDLE"
  /\ UNCHANGED <<inputMode, transcript, manualText, optimizedPrompt, history,
                 error, needsApiKey, refVars, envVars, mountCheck, pendingSelect,
                 transcriptRef, listen, req>>

\* the mount effect's checkKey resumes after hasSelectedApiKey
checkKey(hasKey) ==
  /\ UNCHANGED logVars
  /\ mountCheck = "pending"
  /\ mountCheck' = "done"
  /\ needsApiKey' = ~hasKey
  /\ UNCHANGED <<status, inputMode, transcript, manualText, optimizedPrompt,
                 history, error, refVars, envVars, pendingSelect, transcriptRef,
                 listen, req>>

\* the banner's button, rendered while needsApiKey: handleSelectKey up to
\* its await
handleSelectKey ==
  /\ UNCHANGED logVars
  /\ needsApiKey
  /\ hasAistudio
  /\ pendingSelect < MaxSelect
  /\ pendingSelect' = pendingSelect + 1
  /\ UNCHANGED <<uiVars, refVars, envVars, mountCheck, transcriptRef, listen, req>>

\* an un-awaited handleSelectKey resumes after openSelectKey
SelectKeyDone(ok) ==
  /\ UNCHANGED logVars
  /\ pendingSelect > 0
  /\ pendingSelect' = pendingSelect - 1
  /\ needsApiKey' = IF ok THEN FALSE ELSE needsApiKey
  /\ UNCHANGED <<status, inputMode, transcript, manualText, optimizedPrompt,
                 history, error, refVars, envVars, mountCheck, transcriptRef,
                 listen, req>>

Next ==
  \/ \E i \in SessIds : StartClick(i)
  \/ \E i \in SessIds, hasKey \in BOOLEAN : StartKeyChecked(i, hasKey)
  \/ \E i \in SessIds, ok \in BOOLEAN : StartSelectDone(i, ok)
  \/ \E i \in SessIds, ok \in BOOLEAN : StartResumed(i, ok)
  \/ \E i \in SessIds, out \in {"ok", "denied", "ctxThrow", "clientThrow"} : StartGumDone(i, out)
  \/ \E i \in SessIds, throws \in BOOLEAN : onopen(i, throws)
  \/ \E i \in SessIds : onaudioprocess(i)
  \/ \E i \in SessIds : sendFrame(i)
  \/ \E i \in SessIds, part \in Fragments : onmessage(i, part)
  \/ \E i \in SessIds, message \in {NotFound, Other} : onerror(i, message)
  \/ \E i \in SessIds : onclose(i)
  \/ \E r \in ReqIds, clientOk \in BOOLEAN : StopClick(r, clientOk)
  \/ \E m \in {"voice", "text"} : setInputMode(m)
  \/ \E t \in ManualTexts : setManualText(t)
  \/ \E r \in ReqIds, clientOk \in BOOLEAN : handleManualSubmit(r, clientOk)
  \/ \E r \in ReqIds, hasKey \in BOOLEAN, clientOk \in BOOLEAN : ManualKeyChecked(r, hasKey, clientOk)
  \/ \E r \in ReqIds, ok \in BOOLEAN, clientOk \in BOOLEAN : ManualSelectDone(r, ok, clientOk)
  \/ \E r \in ReqIds, clientOk \in BOOLEAN : handleRegenerate(r, clientOk)
  \/ \E r \in ReqIds, c \in Chunks : streamChunk(r, c)
  \/ \E r \in ReqIds, t1 \in Clock, t2 \in Clock : streamEnd(r, t1, t2)
  \/ \E r \in ReqIds, message \in {NotFound, KeyInvalid, Other} : streamError(r, message)
  \/ Dismiss
  \/ \E hasKey \in BOOLEAN : checkKey(hasKey)
  \/ handleSelectKey
  \/ \E ok \in BOOLEAN : SelectKeyDone(ok)

Spec == Init /\ [][Next]_vars

TypeOK ==
  /\ status \in AppStatus
  /\ inputMode \in {"voice", "text"}
  /\ Len(history) <= MaxRequests
  /\ \A i \in SessIds : listen[i].pending \in 0..MaxPending

\* ---------------------------------------------------------------- vocabulary
\* text made of whitespace only (the empty text included)
IsBlank(s) == \A k \in 1..Len(s) : s[k] = " "

\* x is s without its leading and trailing whitespace
IsTrimOf(x, s) ==
  \E a \in 0..Len(s), b \in 0..Len(s) :
    /\ a + b <= Len(s)
    /\ x = SubSeq(s, a + 1, Len(s) - b)
    /\ IsBlank(SubSeq(s, 1, a))
    /\ IsBlank(SubSeq(s, Len(s) - b + 1, Len(s)))
    /\ IF x = <<>> THEN a + b = Len(s) ELSE x[1] # " " /\ x[Len(x)] # " "

\* the text deltas of a sequence of chunks, in order
RECURSIVE ConcatTexts(_)
ConcatTexts(cs) ==
  IF cs = <<>> THEN <<>>
  ELSE (IF Head(cs).has THEN Head(cs).text ELSE <<>>) \o ConcatTexts(Tail(cs))

\* the fragments of a log, in order
RECURSIVE ConcatParts(_)
ConcatParts(log) ==
  IF log = <<>> THEN <<>> ELSE Head(log).text \o ConcatParts(Tail(log))

\* call i went through onopen's setStatus(LISTENING)
Opened(L, i) == L[i].node # "none"
\* nothing call i acquired is still held
Released(L, i) ==
  /\ L[i].stream # "live"
  /\ L[i].node # "connected"
  /\ L[i].ctx \notin {"running", "suspended"}
\* call i is between its click and the end of its capture
Capturing(i) == listen[i].pc \in {"key", "select", "resume", "gum", "connecting", "open"}
\* optimizePrompt has been entered for call r
Issued(R, r) == R[r].pc \in {"streaming", "done", "failed"}

\* ---------------------------------------------------------------- claims
\* C1: once status has left LISTENING, the stream, node and context of every
\* call that had opened are released and the refs are null, and that is so
\* whenever a startListening begins.
ReleaseOnExit ==
  [][/\ (status = "LISTENING" /\ status' # "LISTENING") =>
          /\ \A i \in SessIds : Opened(listen', i) => Released(listen', i)
          /\ streamRef' = 0 /\ scriptProcessorRef' = 0 /\ audioContextRef' = 0
     /\ (\E i \in SessIds : listen[i].pc = "new" /\ listen'[i].pc # "new") =>
          \A j \in SessIds : Opened(listen, j) => Released(listen, j)]_vars

\* C2: at most one startListening call is pending or capturing, and at most
\* one microphone stream is live.
NoOverlappingCapture ==
  /\ Cardinality({i \in SessIds : Capturing(i)}) <= 1
  /\ Cardinality({i \in SessIds : listen[i].stream = "live"}) <= 1

\* C3: onclose of an open session while status is LISTENING does what a user
\* stop does: it releases the capture and goes to OPTIMIZING with the buffer
\* submitted if the buffer is non-empty, to IDLE otherwise.
ImplicitStopAndSubmit ==
  [][\A i \in SessIds :
       (status = "LISTENING" /\ listen[i].pc = "open" /\ onclose(i)) =>
          /\ Released(listen', i)
          /\ IF transcriptRef # <<>>
             THEN /\ status' = "OPTIMIZING"
                  /\ \E r \in ReqIds : ~Issued(req, r) /\ Issued(req', r)
             ELSE status' = "IDLE"]_vars

\* C4: the history holds exactly one item per optimizePrompt call whose
\* stream was exhausted; a call that failed added none.
HistoryIffCompleted ==
  Len(history) = Cardinality({r \in ReqIds : req[r].pc = "done"})

\* one call completed and another failed after a delta
HistoryIffCompletedWitness ==
  /\ Len(history) = 1
  /\ \E r \in ReqIds : req[r].pc = "done"
  /\ \E r \in ReqIds : req[r].pc = "failed" /\ req[r].chunks # <<>>

\* C5: the item a completing call stores has that call's input as rawInput
\* and the ordered concatenation of the text deltas of its stream as
\* optimizedPrompt.
ItemEqualsRequest ==
  [][\A r \in ReqIds :
       (req[r].pc = "streaming" /\ req'[r].pc = "done") =>
          /\ history' # <<>>
          /\ Head(history').rawInput = req[r].rawInput
          /\ Head(history').optimizedPrompt = ConcatTexts(req[r].chunks)]_vars

\* C6: no optimizePrompt call has an input that is empty or whitespace only.
NoBlankRequest ==
  \A r \in ReqIds : Issued(req, r) => ~IsBlank(req[r].rawInput)

\* a stop let a buffer with whitespace around its text through, trimmed
NoBlankRequestWitness ==
  /\ version = 2
  /\ transcriptRef = <<"a", " ">>
  /\ \E r \in ReqIds : Issued(req, r) /\ req[r].rawInput = <<"a">>

\* C7: while a capture is on, the buffer is the ordered concatenation of the
\* fragments received since its reset, all of them from the call that reset
\* it.
BufferOfOnePhase ==
  status = "LISTENING" =>
    /\ transcriptRef = ConcatParts(received)
    /\ \A k \in 1..Len(received) : received[k].from = phase

\* C8: at most one optimizePrompt call is in flight.
OneRequestInFlight ==
  Cardinality({r \in ReqIds : req[r].pc = "streaming"}) <= 1

\* C9: a callback of a refinement stream that status has moved away from, or
\* of a voice session whose capture was torn down, changes neither the status
\* nor the displayed output or transcript.
SupersededIgnored ==
  [][/\ \A r \in ReqIds :
          (req[r].pc = "streaming" /\ status # "OPTIMIZING" /\ req'[r] # req[r]) =>
             UNCHANGED <<status, optimizedPrompt, transcript>>
     /\ \A i \in SessIds :
          (/\ listen[i].node = "disconnected"
           /\ \/ \E part \in Fragments : onmessage(i, part)
              \/ \E message \in {NotFound, Other} : onerror(i, message)
              \/ onclose(i)) =>
             UNCHANGED <<status, optimizedPrompt, transcript>>]_vars

\* C10 as stated: a user stop with a non-empty buffer goes to OPTIMIZING and
\* submits the buffer; with an empty buffer it goes to IDLE and submits
\* nothing.
StopSubmitsBuffer ==
  [][(\E r \in ReqIds, clientOk \in BOOLEAN : StopClick(r, clientOk)) =>
       IF transcriptRef # <<>>
       THEN /\ status' = "OPTIMIZING"
            /\ \E r \in ReqIds :
                 ~Issued(req, r) /\ Issued(req', r) /\ req'[r].rawInput = transcriptRef
       ELSE status' = "IDLE" /\ req' = req]_vars

\* C10 amended: a user stop whose buffer holds more than whitespace calls
\* optimizePrompt with the trimmed buffer and goes to OPTIMIZING (to ERROR
\* when that call fails at once); otherwise it goes to IDLE and submits
\* nothing.
StopSubmitsTrimmedBuffer ==
  [][(\E r \in ReqIds, clientOk \in BOOLEAN : StopClick(r, clientOk)) =>
       IF ~IsBlank(transcriptRef)
       THEN \E r \in ReqIds :
              /\ ~Issued(req, r) /\ Issued(req', r)
              /\ IsTrimOf(req'[r].rawInput, transcriptRef)
              /\ status' = IF req'[r].pc = "streaming" THEN "OPTIMIZING" ELSE "ERROR"
              /\ \A q \in ReqIds \ {r} : req'[q] = req[q]
       ELSE status' = "IDLE" /\ req' = req]_vars

\* a stop found whitespace only in the buffer and went to IDLE
StopSubmitsTrimmedBufferWitness ==
  /\ status = "IDLE"
  /\ error = null
  /\ transcriptRef = <<" ">>
  /\ phase # 0
  /\ listen[phase].node = "disconnected"
  /\ \A r \in ReqIds : req[r].pc = "new"

\* C11: status never moves from OPTIMIZING to anything but FINISHED or ERROR
\* (the part of the claim a finite run can refute; its "eventually" rests on
\* it).
OptimizingEndsInFinishedOrError ==
  [][status = "OPTIMIZING" => status' \in {"OPTIMIZING", "FINISHED", "ERROR"}]_vars

\* C12: status leaves ERROR only in a step of a user action: dismiss,
\* regenerate, a typed submit (its click or the return of its awaits) or the
\* onopen of a capture (read here as the user's new capture); never in a
\* callback of the stream of a request, which was issued before the error.
ErrorLeftByUserOnly ==
  [][(status = "ERROR" /\ status' # "ERROR") =>
       \/ Dismiss
       \/ \E r \in ReqIds, clientOk \in BOOLEAN : handleRegenerate(r, clientOk)
       \/ \E r \in ReqIds, clientOk \in BOOLEAN : handleManualSubmit(r, clientOk)
       \/ \E r \in ReqIds, hasKey \in BOOLEAN, clientOk \in BOOLEAN :
            ManualKeyChecked(r, hasKey, clientOk)
       \/ \E r \in ReqIds, ok \in BOOLEAN, clientOk \in BOOLEAN :
            ManualSelectDone(r, ok, clientOk)
       \/ \E i \in SessIds, throws \in BOOLEAN : onopen(i, throws)]_vars

RefineErrorHandled ==
  [][/\ \A r \in ReqIds, message \in {NotFound, KeyInvalid, Other} :
          streamError(r, message) =>
            /\ status' = "ERROR"
            /\ error' = RefineMessage(message)
            /\ IF message = NotFound
               THEN /\ needsApiKey'
                    /\ pendingSelect' = IF hasAistudio THEN pendingSelect + 1
                                        ELSE pendingSelect
               ELSE /\ needsApiKey' = needsApiKey
                    /\ pendingSelect' = pendingSelect
     /\ \A r \in ReqIds :
          (req[r].pc # "failed" /\ req'[r].pc = "failed" /\ ~streamError(r, NotFound)) =>
            /\ status' = "ERROR"
            /\ pendingSelect' = pendingSelect]_vars

\* revision 1: a request failed with the not-found message and the host's
\* key selection is open
RefineErrorHandledWitness ==
  /\ status = "ERROR"
  /\ error = MsgRefineKey
  /\ needsApiKey
  /\ pendingSelect > 0
  /\ \E r \in ReqIds : req[r].pc = "failed"

\* a step of a typed submission as call r, which advances that call: the
\* click on Refine Content or the return of one of handleManualSubmit's
\* awaits
TypedSubmitStep(r) ==
  /\ req'[r] # req[r]
  /\ \/ \E clientOk \in BOOLEAN : handleManualSubmit(r, clientOk)
     \/ \E hasKey \in BOOLEAN, clientOk \in BOOLEAN : ManualKeyChecked(r, hasKey, clientOk)
     \/ \E ok \in BOOLEAN, clientOk \in BOOLEAN : ManualSelectDone(r, ok, clientOk)

\* the step gave no call a live stream, an audio context or a session
NothingAcquired ==
  \A i \in SessIds :
    /\ listen'[i].stream = "live" => listen[i].stream = "live"
    /\ listen'[i].ctx \in {"running", "suspended"} => listen[i].ctx = listen'[i].ctx
    /\ listen'[i].pc \in {"connecting", "open"} => listen[i].pc = listen'[i].pc

\* C15 as stated: a typed submission leaves the buffer, the capture handles
\* and the captures as they are, and the step that enters optimizePrompt
\* leaves status OPTIMIZING.
TypedSubmitBypassesAudio ==
  [][\A r \in ReqIds :
       TypedSubmitStep(r) =>
         /\ UNCHANGED <<transcriptRef, refVars, listen>>
         /\ Issued(req', r) => status' = "OPTIMIZING"]_vars

\* C15 amended: a typed submission leaves the buffer as it is and acquires
\* nothing; the step that enters optimizePrompt leaves status OPTIMIZING and
\* the handles and captures unchanged, or, when the request fails at once,
\* status ERROR and the handles null.
TypedSubmitAcquiresNothing ==
  [][\A r \in ReqIds :
       TypedSubmitStep(r) =>
         /\ transcriptRef' = transcriptRef
         /\ NothingAcquired
         /\ IF req'[r].pc = "failed"
            THEN /\ status' = "ERROR"
                 /\ Refs' = NullRefs
            ELSE /\ UNCHANGED <<refVars, listen>>
                 /\ req'[r].pc = "streaming" => status' = "OPTIMIZING"]_vars

\* a typed submission entered optimizePrompt while a capture held its
\* resources and the buffer held text
TypedSubmitAcquiresNothingWitness ==
  /\ status = "OPTIMIZING"
  /\ inputMode = "text"
  /\ transcriptRef # <<>>
  /\ streamRef # 0
  /\ \E r \in ReqIds : req[r].pc = "streaming" /\ req[r].rawInput = Trim(manualText)

\* C16: the step in which a startListening call passes its resets and goes
\* on to capture leaves the buffer, the displayed transcript and the
\* displayed output empty, the error cleared and the history as it was, and
\* no fragment of that call has been received by then.
StartClearsState ==
  [][\A i \in SessIds :
       (listen[i].pc \in {"new", "key", "select"} /\ listen'[i].pc \in {"resume", "gum"}) =>
         /\ transcriptRef' = <<>>
         /\ transcript' = <<>>
         /\ optimizedPrompt' = <<>>
         /\ error' = null
         /\ history' = history
         /\ \A k \in 1..Len(received') : received'[k].from # i]_vars

\* a capture was started on a finished refinement whose output was shown
StartClearsStateWitness ==
  /\ status = "FINISHED"
  /\ history # <<>>
  /\ Head(history).optimizedPrompt # <<>>
  /\ optimizedPrompt = <<>>
  /\ \E i \in SessIds : listen[i].pc \in {"resume", "gum"}

\* C17: a frame is sent to a session only after that session's onopen and
\* never once stopListeningInternal has closed that session.
FrameForwardingWindow ==
  [][\A i \in SessIds :
       sendFrame(i) => Opened(listen, i) /\ listen[i].pc # "stopped"]_vars

\* C18: the displayed output is empty after the step that enters
\* optimizePrompt, equals the concatenation of the deltas of the call that
\* received one after each delta, and equals the newest item's
\* optimizedPrompt whenever status is FINISHED.
RunningConcatenation ==
  [][/\ \A r \in ReqIds :
          (~Issued(req, r) /\ Issued(req', r)) => optimizedPrompt' = <<>>
     /\ \A r \in ReqIds :
          (req[r].pc = "streaming" /\ req'[r].chunks # req[r].chunks) =>
             optimizedPrompt' = ConcatTexts(req'[r].chunks)
     /\ status' = "FINISHED" =>
          /\ history' # <<>>
          /\ optimizedPrompt' = Head(history').optimizedPrompt]_vars

\* C19: every step leaves the history as it was or, when a request
\* completes, puts one item in front of the items it held, which stay as
\* they were and in their order; timestamps never increase down the list.
HistoryNewestFirst ==
  [][/\ \/ history' = history
        \/ /\ history' # <<>>
           /\ Tail(history') = history
           /\ \E r \in ReqIds : req[r].pc = "streaming" /\ req'[r].pc = "done"
     /\ \A k \in 1..(Len(history') - 1) :
          history'[k].timestamp >= history'[k + 1].timestamp]_vars

\* two requests completed, with different outputs
HistoryNewestFirstWitness ==
  /\ Len(history) = 2
  /\ history[1].optimizedPrompt # history[2].optimizedPrompt

\* C20: a regenerate with text in the buffer enters optimizePrompt with the
\* input a stop submits for that buffer, the trimmed buffer, and leaves
\* status OPTIMIZING when the request starts; with no text in the buffer it
\* changes nothing.
RegenerateResubmits ==
  [][\A r \in ReqIds, clientOk \in BOOLEAN :
       handleRegenerate(r, clientOk) =>
         IF ~IsBlank(transcriptRef)
         THEN /\ ~Issued(req, r) /\ Issued(req', r)
              /\ req'[r].rawInput = Trim(transcriptRef)
              /\ req'[r].pc = "streaming" => status' = "OPTIMIZING"
         ELSE UNCHANGED <<status, req>>]_vars

\* C21: on a host without window.aistudio no startListening and no
\* handleManualSubmit ever waits for a credential check or a selection, no
\* selection is ever in flight (every handleSelectKey call returns without
\* effect), the mount-time check is over from the start, and needsApiKey is
\* raised by nothing but a "Requested entity was not found" failure.
AbsentCapabilitySkipsGating ==
  [][~hasAistudio =>
       /\ mountCheck' = "done"
       /\ pendingSelect' = 0
       /\ \A i \in SessIds : listen'[i].pc \notin {"key", "select"}
       /\ \A r \in ReqIds : req'[r].pc \notin {"key", "select"}
       /\ needsApiKey' # needsApiKey =>
            /\ needsApiKey'
            /\ \/ \E i \in SessIds : onerror(i, NotFound)
               \/ \E r \in ReqIds : streamError(r, NotFound)]_vars

\* without window.aistudio, revision 1: a capture was started and failed with
\* a not-found error (which calls handleSelectKey), then typed text was
\* submitted and its request is streaming
AbsentCapabilitySkipsGatingWitness ==
  /\ ~hasAistudio
  /\ version = 1
  /\ needsApiKey
  /\ inputMode = "text"
  /\ \E i \in SessIds : listen[i].pc \in {"closed", "stopped"}
  /\ \E r \in ReqIds : req[r].pc = "streaming"

\* C22: in every reachable state, stopListeningInternal run a second time
\* (the refs are null by then) changes nothing more, run with all refs null
\* it changes nothing, and whatever the state of the session named by
\* sessionRef (a close() that raises included) the node, stream and context
\* named by the refs end up disconnected, stopped and closed.
TeardownIdempotentTotal ==
  LET once == stopListeningInternal(listen, Refs)
  IN /\ stopListeningInternal(once, NullRefs) = once
     /\ stopListeningInternal(listen, NullRefs) = listen
     /\ \A i \in SessIds :
          /\ sessionRef = i => once[i].pc \notin {"connecting", "open"}
          /\ scriptProcessorRef = i => once[i].node = "disconnected"
          /\ streamRef = i => once[i].stream = "stopped"
          /\ audioContextRef = i => once[i].ctx = "closed"

\* the four refs name a capture whose session the service has closed: the
\* teardown's close() is one that may raise, and its result holds nothing
TeardownIdempotentTotalWitness ==
  \E i \in SessIds :
    /\ sessionRef = i /\ scriptProcessorRef = i
    /\ streamRef = i /\ audioContextRef = i
    /\ listen[i].pc = "closed"
    /\ listen[i].stream = "live" /\ listen[i].node = "connected"
    /\ Released(stopListeningInternal(listen, Refs), i)

\* C23: any two distinct items of the history list have different ids.
HistoryIdsUnique ==
  \A a \in 1..Len(history), b \in 1..Len(history) :
    a # b => history[a].id # history[b].id

\* C24: while status is not LISTENING (before the first capture, and after a
\* stop or an error exit until the next onopen) sessionRef is null and no
\* session that went through onopen is still open.
SessionHandleReleased ==
  status # "LISTENING" =>
    /\ sessionRef = 0
    /\ \A i \in SessIds : Opened(listen, i) => listen[i].pc # "open"

\* C25: whenever status is LISTENING, streamRef, audioContextRef and
\* scriptProcessorRef are all non-null.
ListeningHoldsResources ==
  status = "LISTENING" =>
    streamRef # 0 /\ audioContextRef # 0 /\ scriptProcessorRef # 0

\* C26: whenever status is ERROR the error field holds a message.
ErrorHasMessage ==
  status = "ERROR" => error # null

\* C27: the rawInput of every request sent to the service (its stream
\* awaited or exhausted) is equal to its own trim.
RequestInputsTrimmed ==
  \A r \in ReqIds :
    req[r].pc \in {"streaming", "done"} => req[r].rawInput = Trim(req[r].rawInput)

\* C28: a step makes the microphone-permission message the displayed error
\* exactly when it is a getUserMedia refusal: every refusal ends with that
\* message and status ERROR, and no other step puts that message in place.
MicMessageIffRefused ==
  [][/\ (\E i \in SessIds : StartGumDone(i, "denied")) =>
          error' = MsgMic /\ status' = "ERROR"
     /\ (error' = MsgMic /\ error # MsgMic) =>
          \E i \in SessIds : StartGumDone(i, "denied")]_vars

====
